---- MODULE Spec2Model ----
(***************************************************************************)
(* Model of src/lib/server.js of mcp-devops-clearcase: an MCP server whose *)
(* tools shell out to `cleartool`.  One tool invocation is followed from   *)
(* the request to the response, together with the subprocesses it spawns,  *)
(* the data and close events of those subprocesses, launch failures and    *)
(* the SIGTERM/SIGINT handler of the host process.                         *)
(*                                                                         *)
(* Text is a sequence of tokens: one token per character of data and per   *)
(* whitespace character that ends a literal, one token for the rest of a   *)
(* string literal of the source (labels, flags).  Invocations share no     *)
(* state in the source (every call of executeClearToolCommand has its own  *)
(* closure), so one invocation per behaviour is followed.                  *)
(*                                                                         *)
(* Node runs the continuation of an `await` as microtasks of the event     *)
(* that settled the promise, before any other event is dispatched: the     *)
(* continuation of a handler is therefore part of the Close action.        *)
(***************************************************************************)
EXTENDS Integers, Sequences, FiniteSets, TLC

(* ------------------------------ bounds -------------------------------- *)
\* longest resourcePaths array of a batch request
MaxPaths == 2
\* number of data events (stdout and stderr together) in one behaviour
MaxChunks == 2

(* ------------------------------ inputs -------------------------------- *)
PathPool == << <<"/p1">>, <<"/p2">>, <<"/p3">>, <<"/p4">> >>
\* request arrays: the first n paths of the pool, n = 0..MaxPaths
PathLists == { SubSeq(PathPool, 1, n) : n \in 0..MaxPaths }
\* an optional parameter is <<>> (undefined) or <<v>>
Comments == { <<>>, << <<"c", "\"", "d">> >> }
OptBools == { <<>>, <<TRUE>> }
ActivityIds == { <<>>, << <<>> >>, << <<"A", "1">> >> }
Headlines == { <<>>, << <<>> >>, << <<"h">> >> }
\* bytes a subprocess writes in one data event: a newline, or "a", a newline
\* and the first byte of a two-byte UTF-8 character that the chunk cuts
Chunks == { <<10>>, <<97, 10, 195>> }
\* exit statuses passed to the close listener
ExitCodes == {0, 1}
Signals == {"SIGTERM", "SIGINT"}

SimpleOps == {"get_clearcase_views", "get_resource_status", "login", "logout",
              "add_view", "update_view", "rename_resource", "remove_resource",
              "open_file"}
BatchOps == {"checkout_resources", "undo_checkout", "checkin_resources",
             "add_resources", "hijack_resources", "undo_hijack"}
ActivityOp == "create_or_set_ucm_activity"

VARIABLES
  exitStatus,   \* <<exit status>> of the host process, <<>> while it runs
  signalled,    \* whether the host has received SIGTERM or SIGINT
  req,          \* the invocation request: operation and parameters
  pc,           \* position of the handler: "idle", "awaiting", "returned"
  response,     \* the content array returned by the handler, <<>> before
  procs,        \* the subprocesses, in spawn order
  settleOrder,  \* subprocess indexes in the order their promises settled
  nChunks       \* data events so far

vars == <<exitStatus, signalled, req, pc, response, procs, settleOrder, nChunks>>

(* --------------------------- string functions ------------------------- *)
Whitespace == {" ", "\n", "\t", "\r"}

RECURSIVE TrimStart(_)
TrimStart(s) ==
  IF s # <<>> /\ Head(s) \in Whitespace THEN TrimStart(Tail(s)) ELSE s

RECURSIVE TrimEnd(_)
TrimEnd(s) ==
  IF s # <<>> /\ s[Len(s)] \in Whitespace
  THEN TrimEnd(SubSeq(s, 1, Len(s) - 1)) ELSE s

\* String.prototype.trim
trim(s) == TrimEnd(TrimStart(s))

\* variant: the whole output is taken as the activity id
FirstLine_Whole(s) == s

\* output.split("\n")[0]
RECURSIVE FirstLine(_)
FirstLine(s) ==
  IF s = <<>> \/ Head(s) = "\n" THEN <<>>
  ELSE <<Head(s)>> \o FirstLine(Tail(s))

\* results.join("\n")
RECURSIVE join(_)
join(list) ==
  IF list = <<>> THEN <<>>
  ELSE IF Len(list) = 1 THEN list[1]
  ELSE list[1] \o <<"\n">> \o join(Tail(list))

\* comment.replace(/"/g, '\\"')
RECURSIVE replaceQuotes(_)
replaceQuotes(s) ==
  IF s = <<>> THEN <<>>
  ELSE (IF Head(s) = "\"" THEN <<"\\", "\"">> ELSE <<Head(s)>>)
       \o replaceQuotes(Tail(s))

\* the character of an ASCII byte
Chr(b) ==
  CASE b = 97 -> "a"
    [] b = 98 -> "b"
    [] b = 10 -> "\n"
    [] b = 32 -> " "
    [] OTHER -> "?"

\* data.toString(): UTF-8 decoding of one chunk on its own; a byte that is
\* not part of a complete character becomes U+FFFD
RECURSIVE DataToString(_)
DataToString(data) ==
  IF data = <<>> THEN <<>>
  ELSE IF Head(data) < 128 THEN <<Chr(Head(data))>> \o DataToString(Tail(data))
  ELSE IF /\ Head(data) \in 194..223
          /\ Len(data) >= 2
          /\ data[2] \in 128..191
       THEN <<"U+0080..U+07FF">> \o DataToString(SubSeq(data, 3, Len(data)))
  ELSE <<"U+FFFD">> \o DataToString(Tail(data))

\* variant: an empty string counts as given
TruthyStr_Defined(o) == o # <<>>

\* JavaScript truthiness of an optional string / an optional boolean
TruthyStr(o) == o # <<>> /\ o[1] # <<>>
TruthyBool(o) == o # <<>> /\ o[1]

(* ------------------------- the tool registry -------------------------- *)
\* the label of the success response of an operation
SuccessLabel(op) ==
  CASE op = "get_clearcase_views" -> <<"Views:", "\n">>
    [] op = "get_resource_status" -> <<"Resource status:", "\n">>
    [] op = "create_or_set_ucm_activity" -> <<"Activity created successfully:", "\n">>
    [] op = "checkout_resources" -> <<"Checkout results:", "\n">>
    [] op = "undo_checkout" -> <<"Undo checkout results:", "\n">>
    [] op = "checkin_resources" -> <<"Check-in results:", "\n">>
    [] op = "login" -> <<"Login successful:", "\n">>
    [] op = "logout" -> <<"Logout successful:", "\n">>
    [] op = "add_view" -> <<"View added successfully:", "\n">>
    [] op = "update_view" -> <<"View updated successfully:", "\n">>
    [] op = "add_resources" -> <<"Add results:", "\n">>
    [] op = "hijack_resources" -> <<"Hijack results:", "\n">>
    [] op = "undo_hijack" -> <<"Undo hijack results:", "\n">>
    [] op = "rename_resource" -> <<"Resource renamed successfully:", "\n">>
    [] op = "remove_resource" -> <<"Resource removed successfully:", "\n">>
    [] op = "open_file" -> <<"File opened successfully:", "\n">>

\* the label of the error response of an operation
ErrorLabel(op) ==
  CASE op = "get_clearcase_views" -> <<"Error retrieving views:", " ">>
    [] op = "get_resource_status" -> <<"Error retrieving resource status:", " ">>
    [] op = "create_or_set_ucm_activity" -> <<"Error creating or setting activity:", " ">>
    [] op = "checkout_resources" -> <<"Error checking out resources:", " ">>
    [] op = "undo_checkout" -> <<"Error undoing checkout:", " ">>
    [] op = "checkin_resources" -> <<"Error checking in resources:", " ">>
    [] op = "login" -> <<"Error during login:", " ">>
    [] op = "logout" -> <<"Error during logout:", " ">>
    [] op = "add_view" -> <<"Error adding view:", " ">>
    [] op = "update_view" -> <<"Error updating view:", " ">>
    [] op = "add_resources" -> <<"Error adding resources:", " ">>
    [] op = "hijack_resources" -> <<"Error hijacking resources:", " ">>
    [] op = "undo_hijack" -> <<"Error undoing hijack:", " ">>
    [] op = "rename_resource" -> <<"Error renaming resource:", " ">>
    [] op = "remove_resource" -> <<"Error removing resource:", " ">>
    [] op = "open_file" -> <<"Error opening file:", " ">>

\* { content: [{ type: 'text', text }] }
TextResponse(text) == << [type |-> "text", text |-> text] >>

\* comment ? comment.replace(/"/g, '\\"') : "automated ..."
CommentArg(comment, default) ==
  IF TruthyStr(comment) THEN replaceQuotes(comment[1]) ELSE <<default>>

\* argument vector of an operation that calls the adapter once
SimpleArgs(r) ==
  CASE r.op = "get_clearcase_views" -> << <<"lsview">> >>
    [] r.op = "get_resource_status" -> << <<"describe">>, r.resourcePath >>
    [] r.op = "login" ->
         << <<"login">>, <<"-server">>, r.wanServer, <<"-user">>, r.username,
            <<"-password">>, r.password >>
    [] r.op = "logout" -> << <<"logout">> >>
    [] r.op = "add_view" -> << <<"mkview">>, r.viewPath >>
    [] r.op = "update_view" -> << <<"setcs">>, <<"-current">>, r.viewPath >>
    [] r.op = "rename_resource" -> << <<"mv">>, r.resourcePath, r.newName >>
    [] r.op = "remove_resource" -> << <<"rmname">>, r.resourcePath >>
    [] r.op = "open_file" -> << <<"describe">>, r.filePath >>

\* argument vector of a batch operation for one path
BatchArgs(r, path) ==
  CASE r.op = "checkout_resources" ->
         << <<"checkout">>, <<"-c">>, CommentArg(r.comment, "automated checkout"), path >>
    [] r.op = "undo_checkout" ->
         << <<"uncheckout">>,
            IF TruthyBool(r.keepChanges) THEN <<"-keep">> ELSE <<"-rm">>, path >>
    [] r.op = "checkin_resources" ->
         << <<"checkin">> >>
         \o (IF TruthyBool(r.checkinIdentical) THEN << <<"-identical">> >> ELSE <<>>)
         \o << <<"-c">>, CommentArg(r.comment, "automated checkin"), path >>
    [] r.op = "add_resources" ->
         << <<"mkelem">>, <<"-c">>, CommentArg(r.comment, "automated add"), path >>
    [] r.op = "hijack_resources" -> << <<"hijack">>, path >>
    [] r.op = "undo_hijack" -> << <<"unhijack">>, path >>

\* a request; parameters an operation does not declare are undefined
NoParam == <<>>
Request(op) ==
  [op |-> op, resourcePath |-> NoParam, newName |-> NoParam,
   filePath |-> NoParam, viewPath |-> NoParam, wanServer |-> NoParam,
   username |-> NoParam, password |-> NoParam, resourcePaths |-> <<>>,
   comment |-> <<>>, keepChanges |-> <<>>, checkinIdentical |-> <<>>,
   activityId |-> <<>>, activityHeadline |-> <<>>, setActivity |-> FALSE]

(* ------------------------ the execution adapter ----------------------- *)
\* the state executeClearToolCommand creates: the child process, the two
\* accumulators and the promise.  stdout and stderr record the chunks the
\* child wrote, in arrival order; nSettle counts calls of resolve/reject;
\* code is <<>> until the close event, then <<exit status>>.
SpawnProcess(command, args) ==
  [command |-> command, args |-> args, status |-> "running", code |-> <<>>,
   output |-> <<>>, error |-> <<>>, stdout |-> <<>>, stderr |-> <<>>,
   promise |-> "pending", value |-> <<>>, nSettle |-> 0]

executeClearToolCommand(command, args) == SpawnProcess(command, args)

\* variant: the new chunk is put in front of the accumulated text
Accumulate_Prepend(acc, data) == DataToString(data) \o acc

\* output += data.toString()
Accumulate(acc, data) == acc \o DataToString(data)

\* variant: the fallback to the exit-status message is missing
RejectMessage_NoFallback(error, code) == trim(error)

\* error.trim() || `Process exited with code ${code}`
RejectMessage(error, code) ==
  IF trim(error) # <<>> THEN trim(error)
  ELSE <<"Process exited with code", " ", ToString(code)>>

\* the close listener
OnClose(p, code) ==
  IF code = 0
  THEN [p EXCEPT !.status = "closed", !.code = <<code>>, !.promise = "resolved",
                 !.value = trim(p.output), !.nSettle = @ + 1]
  ELSE [p EXCEPT !.status = "closed", !.code = <<code>>, !.promise = "rejected",
                 !.value = RejectMessage(p.error, code), !.nSettle = @ + 1]

\* variant: the values are collected in the order the promises settled
PromiseAll_SettleOrder(ps, order) ==
  LET rejected == SelectSeq(order, LAMBDA i : ps[i].promise = "rejected") IN
  IF rejected # <<>>
  THEN [state |-> "rejected", value |-> ps[Head(rejected)].value]
  ELSE IF \A i \in 1..Len(ps) : ps[i].promise = "resolved"
  THEN [state |-> "resolved", value |-> [k \in 1..Len(order) |-> ps[order[k]].value]]
  ELSE [state |-> "pending", value |-> <<>>]

\* variant: waits until every promise has settled, then rejects with the
\* reason of the first rejected promise in the order of ps
PromiseAll_AllSettled(ps, order) ==
  LET rejected == { i \in 1..Len(ps) : ps[i].promise = "rejected" } IN
  IF \E i \in 1..Len(ps) : ps[i].promise = "pending"
  THEN [state |-> "pending", value |-> <<>>]
  ELSE IF rejected # {}
  THEN [state |-> "rejected",
        value |-> ps[CHOOSE i \in rejected : \A j \in rejected : i <= j].value]
  ELSE [state |-> "resolved", value |-> [i \in 1..Len(ps) |-> ps[i].value]]

\* Promise.all over the promises of ps, order being the order in which they
\* settled: rejected with the reason of the first promise to reject,
\* resolved with the values in the order of ps once all have resolved
PromiseAll(ps, order) ==
  LET rejected == SelectSeq(order, LAMBDA i : ps[i].promise = "rejected") IN
  IF rejected # <<>>
  THEN [state |-> "rejected", value |-> ps[Head(rejected)].value]
  ELSE IF \A i \in 1..Len(ps) : ps[i].promise = "resolved"
  THEN [state |-> "resolved", value |-> [i \in 1..Len(ps) |-> ps[i].value]]
  ELSE [state |-> "pending", value |-> <<>>]

(* ----------------------------- the handlers --------------------------- *)
Suspended(ps) == [pc |-> "awaiting", response |-> <<>>, procs |-> ps]
Returned(ps, text) == [pc |-> "returned", response |-> TextResponse(text), procs |-> ps]

\* variant: with both an activityId and a headline, create_or_set_ucm_activity
\* issues mkactivity as well as setactivity
FirstCalls_Both(r) ==
  IF r.op \in SimpleOps THEN << executeClearToolCommand("cleartool", SimpleArgs(r)) >>
  ELSE IF r.op \in BatchOps
  THEN [i \in 1..Len(r.resourcePaths) |->
          executeClearToolCommand("cleartool", BatchArgs(r, r.resourcePaths[i]))]
  ELSE (IF TruthyStr(r.activityId)
        THEN << executeClearToolCommand("cleartool",
                  << <<"setactivity">>, r.activityId[1] >>) >>
        ELSE <<>>)
       \o (IF TruthyStr(r.activityHeadline)
           THEN << executeClearToolCommand("cleartool",
                     << <<"mkactivity">>, <<"-headline">>, r.activityHeadline[1] >>) >>
           ELSE <<>>)

\* the adapter calls a handler makes before its first await
FirstCalls(r) ==
  IF r.op \in SimpleOps THEN << executeClearToolCommand("cleartool", SimpleArgs(r)) >>
  ELSE IF r.op \in BatchOps
  THEN [i \in 1..Len(r.resourcePaths) |->
          executeClearToolCommand("cleartool", BatchArgs(r, r.resourcePaths[i]))]
  ELSE IF TruthyStr(r.activityId)
  THEN << executeClearToolCommand("cleartool", << <<"setactivity">>, r.activityId[1] >>) >>
  ELSE IF TruthyStr(r.activityHeadline)
  THEN << executeClearToolCommand("cleartool",
            << <<"mkactivity">>, <<"-headline">>, r.activityHeadline[1] >>) >>
  ELSE <<>>

\* a handler that awaits one adapter call and labels its outcome
SimpleHandler(r, ps) ==
  CASE ps[1].promise = "resolved" ->
         Returned(ps, SuccessLabel(r.op) \o ps[1].value)
    [] ps[1].promise = "rejected" ->
         Returned(ps, ErrorLabel(r.op) \o ps[1].value)
    [] OTHER -> Suspended(ps)

\* a handler that awaits Promise.all over one adapter call per path
BatchHandler(r, ps, order) ==
  LET all == PromiseAll(ps, order) IN
  CASE all.state = "resolved" ->
         Returned(ps, SuccessLabel(r.op) \o join(all.value))
    [] all.state = "rejected" ->
         Returned(ps, ErrorLabel(r.op) \o all.value)
    [] OTHER -> Suspended(ps)

\* the handler of create_or_set_ucm_activity
ActivityHandler(r, ps) ==
  IF TruthyStr(r.activityId)
  THEN CASE ps[1].promise = "resolved" ->
              Returned(ps, <<"Activity", " ">> \o r.activityId[1]
                             \o <<" ", "set successfully.">>)
         [] ps[1].promise = "rejected" ->
              Returned(ps, ErrorLabel(r.op) \o ps[1].value)
         [] OTHER -> Suspended(ps)
  ELSE IF TruthyStr(r.activityHeadline)
  THEN CASE ps[1].promise = "rejected" ->
              Returned(ps, ErrorLabel(r.op) \o ps[1].value)
         [] ps[1].promise = "pending" -> Suspended(ps)
         [] ps[1].promise = "resolved" /\ ~r.setActivity ->
              Returned(ps, SuccessLabel(r.op) \o ps[1].value)
         [] ps[1].promise = "resolved" /\ r.setActivity /\ Len(ps) = 1 ->
              Suspended(Append(ps, executeClearToolCommand("cleartool",
                           << <<"setactivity">>, FirstLine(ps[1].value) >>)))
         [] ps[1].promise = "resolved" /\ r.setActivity /\ Len(ps) = 2 ->
              CASE ps[2].promise = "resolved" ->
                     Returned(ps, SuccessLabel(r.op) \o ps[1].value)
                [] ps[2].promise = "rejected" ->
                     Returned(ps, ErrorLabel(r.op) \o ps[2].value)
                [] OTHER -> Suspended(ps)
  ELSE Returned(ps, ErrorLabel(r.op)
                     \o <<"Either activityId or activityHeadline must be provided.">>)

\* the handler of r run until it suspends or returns
Handler(r, ps, order) ==
  IF r.op \in SimpleOps THEN SimpleHandler(r, ps)
  ELSE IF r.op \in BatchOps THEN BatchHandler(r, ps, order)
  ELSE ActivityHandler(r, ps)

(* ------------------------------- actions ------------------------------ *)
Init ==
  /\ exitStatus = <<>>
  /\ signalled = FALSE
  /\ req = Request("none")
  /\ pc = "idle"
  /\ response = <<>>
  /\ procs = <<>>
  /\ settleOrder = <<>>
  /\ nChunks = 0

\* the protocol host dispatches request r to its handler
Invoke(r) ==
  /\ exitStatus = <<>>
  /\ pc = "idle"
  /\ LET h == Handler(r, FirstCalls(r), <<>>) IN
       /\ req' = r
       /\ pc' = h.pc
       /\ response' = h.response
       /\ procs' = h.procs
  /\ UNCHANGED <<exitStatus, signalled, settleOrder, nChunks>>

InvokeSimple ==
  \E op \in SimpleOps :
    Invoke([Request(op) EXCEPT
              !.resourcePath = IF op \in {"get_resource_status", "rename_resource",
                                          "remove_resource"}
                               THEN PathPool[1] ELSE NoParam,
              !.newName = IF op = "rename_resource" THEN <<"n">> ELSE NoParam,
              !.filePath = IF op = "open_file" THEN PathPool[1] ELSE NoParam,
              !.viewPath = IF op \in {"add_view", "update_view"}
                           THEN <<"/v">> ELSE NoParam,
              !.wanServer = IF op = "login" THEN <<"w">> ELSE NoParam,
              !.username = IF op = "login" THEN <<"u">> ELSE NoParam,
              !.password = IF op = "login" THEN <<"p">> ELSE NoParam])

InvokeActivity ==
  \E id \in ActivityIds, headline \in Headlines, set \in BOOLEAN :
    Invoke([Request(ActivityOp) EXCEPT
              !.activityId = id, !.activityHeadline = headline, !.setActivity = set])

\* the optional parameters vary on the requests of at most one path
InvokeBatch ==
  \E op \in BatchOps, paths \in PathLists, comment \in Comments, flag \in OptBools :
    /\ op \in {"undo_checkout", "hijack_resources", "undo_hijack"} => comment = <<>>
    /\ op \notin {"undo_checkout", "checkin_resources"} => flag = <<>>
    /\ Len(paths) > 1 => comment = <<>> /\ flag = <<>>
    /\ Invoke([Request(op) EXCEPT
                 !.resourcePaths = paths, !.comment = comment,
                 !.keepChanges = IF op = "undo_checkout" THEN flag ELSE <<>>,
                 !.checkinIdentical = IF op = "checkin_resources" THEN flag ELSE <<>>])

\* a "data" event of the stdout stream of subprocess i
StdoutData(i, data) ==
  /\ exitStatus = <<>>
  /\ procs[i].status = "running"
  /\ nChunks < MaxChunks
  /\ procs' = [procs EXCEPT ![i].output = Accumulate(@, data),
                            ![i].stdout = Append(@, data)]
  /\ nChunks' = nChunks + 1
  /\ UNCHANGED <<exitStatus, signalled, req, pc, response, settleOrder>>

\* a "data" event of the stderr stream of subprocess i
StderrData(i, data) ==
  /\ exitStatus = <<>>
  /\ procs[i].status = "running"
  /\ nChunks < MaxChunks
  /\ procs' = [procs EXCEPT ![i].error = Accumulate(@, data),
                            ![i].stderr = Append(@, data)]
  /\ nChunks' = nChunks + 1
  /\ UNCHANGED <<exitStatus, signalled, req, pc, response, settleOrder>>

\* the "close" event of subprocess i, and the continuation of the handler
\* if it is still suspended
Close(i, code) ==
  /\ exitStatus = <<>>
  /\ procs[i].status = "running"
  /\ LET ps == [procs EXCEPT ![i] = OnClose(@, code)]
         order == Append(settleOrder, i)
         h == Handler(req, ps, order)
     IN /\ settleOrder' = order
        /\ IF pc = "awaiting"
           THEN /\ pc' = h.pc
                /\ response' = h.response
                /\ procs' = h.procs
           ELSE /\ procs' = ps
                /\ UNCHANGED <<pc, response>>
  /\ UNCHANGED <<exitStatus, signalled, req, nChunks>>

\* the binary of subprocess i cannot be started: on the tick after the
\* handler's calls of spawn, before any other event, the child emits "error",
\* for which executeClearToolCommand registers no listener, so the event is
\* thrown as an uncaught exception and the host process dies with status 1.
\* (Parameters are strings spawn accepts: a call of spawn that throws on its
\* arguments is not among the inputs.)
LaunchFailure(i) ==
  /\ exitStatus = <<>>
  /\ pc = "awaiting"
  /\ \A j \in DOMAIN procs :
       procs[j].status = "running" =>
         procs[j].stdout = <<>> /\ procs[j].stderr = <<>>
  /\ req.op \in BatchOps => settleOrder = <<>>
  /\ procs[i].status = "running"
  /\ procs' = [procs EXCEPT ![i].status = "spawn-error"]
  /\ exitStatus' = <<1>>
  /\ UNCHANGED <<signalled, req, pc, response, settleOrder, nChunks>>

\* process.exit(0)
Exit0 == 0

\* variant: the host exits only when no handler is suspended
cleanup_Graceful(sig) ==
  /\ exitStatus = <<>>
  /\ exitStatus' = IF pc = "awaiting" THEN <<>> ELSE <<Exit0>>
  /\ signalled' = TRUE
  /\ UNCHANGED <<req, pc, response, procs, settleOrder, nChunks>>

\* the SIGTERM / SIGINT listener
cleanup(sig) ==
  /\ exitStatus = <<>>
  /\ exitStatus' = <<Exit0>>
  /\ signalled' = TRUE
  /\ UNCHANGED <<req, pc, response, procs, settleOrder, nChunks>>

Next ==
  \/ InvokeSimple
  \/ InvokeActivity
  \/ InvokeBatch
  \/ \E i \in DOMAIN procs, data \in Chunks : StdoutData(i, data)
  \/ \E i \in DOMAIN procs, data \in Chunks : StderrData(i, data)
  \/ \E i \in DOMAIN procs, code \in ExitCodes : Close(i, code)
  \/ \E i \in DOMAIN procs : LaunchFailure(i)
  \/ \E sig \in Signals : cleanup(sig)

Spec == Init /\ [][Next]_vars

(* ------------------------- vocabulary of the claims ------------------- *)
\* the text of a stream: its chunks decoded one by one, in arrival order
RECURSIVE StreamText(_)
StreamText(chunks) ==
  IF chunks = <<>> THEN <<>>
  ELSE DataToString(Head(chunks)) \o StreamText(Tail(chunks))

\* the part of a text before its first newline
FirstLineOf(text) ==
  IF \E k \in 1..Len(text) : text[k] = "\n"
  THEN SubSeq(text, 1, (CHOOSE k \in 1..Len(text) :
                          /\ text[k] = "\n"
                          /\ \A j \in 1..(k - 1) : text[j] # "\n") - 1)
  ELSE text

IsPrefix(a, b) == Len(a) <= Len(b) /\ SubSeq(b, 1, Len(a)) = a

Contains(text, part) ==
  \E k \in 0..(Len(text) - Len(part)) : SubSeq(text, k + 1, k + Len(part)) = part

ExitedNonZero(i) == procs[i].status = "closed" /\ procs[i].code # <<0>>
ExitedZero(i) == procs[i].status = "closed" /\ procs[i].code = <<0>>

\* the subprocesses that exited non-zero, earliest first
FailedInTime == SelectSeq(settleOrder, LAMBDA i : procs[i].code # <<0>>)

\* the message the exit status is reported with when there is no error text
StatusMessage(code) == <<"Process exited with code", " ", ToString(code)>>

OneTextBlock == Len(response) = 1 /\ response[1].type = "text"

(* -------------------------------- C1 ---------------------------------- *)
\* C1 as stated: once the handler has returned, for every subprocess of the
\* invocation that exited non-zero the response is one text block that
\* begins with the error label and contains the (trimmed) standard-error
\* text of that subprocess, or the exit-status message when that text is
\* empty.
C1_AsStated ==
  \A i \in DOMAIN procs :
    (pc = "returned" /\ ExitedNonZero(i)) =>
      /\ OneTextBlock
      /\ IsPrefix(ErrorLabel(req.op), response[1].text)
      /\ IF trim(StreamText(procs[i].stderr)) = <<>>
         THEN Contains(response[1].text, StatusMessage(procs[i].code[1]))
         ELSE Contains(response[1].text, trim(StreamText(procs[i].stderr)))

\* C1 amended: once the handler has returned and a subprocess of the
\* invocation has exited non-zero, the response is one text block that begins
\* with the error label and contains the trimmed standard-error text of the
\* first subprocess to exit non-zero, or the exit-status message when that
\* trimmed text is empty.
C1_ErrorResponse ==
  (pc = "returned" /\ FailedInTime # <<>>) =>
    LET first == procs[Head(FailedInTime)] IN
      /\ OneTextBlock
      /\ IsPrefix(ErrorLabel(req.op), response[1].text)
      /\ IF trim(StreamText(first.stderr)) = <<>>
         THEN Contains(response[1].text, StatusMessage(first.code[1]))
         ELSE Contains(response[1].text, trim(StreamText(first.stderr)))

\* a handler has returned the error text of one subprocess, and another
\* subprocess of the invocation has exited non-zero with a different text
C1_Witness ==
  /\ pc = "returned"
  /\ Len(FailedInTime) = 2
  /\ trim(procs[FailedInTime[1]].error) # <<>>
  /\ trim(procs[FailedInTime[2]].error) # trim(procs[FailedInTime[1]].error)
  /\ OneTextBlock
  /\ Contains(response[1].text, trim(procs[FailedInTime[1]].error))

(* -------------------------------- C2 ---------------------------------- *)
\* C2 as stated: when the binary of a subprocess cannot be started, the
\* adapter's promise is rejected and the host process does not die of an
\* unhandled fault.
C2_LaunchFailureRejects ==
  \A i \in DOMAIN procs :
    procs[i].status = "spawn-error" =>
      /\ procs[i].promise = "rejected"
      /\ exitStatus = <<>>

(* -------------------------------- C3 ---------------------------------- *)
\* C3: a call of the adapter is settled exactly when its subprocess has
\* closed, by one call of resolve or reject; it is resolved with the trimmed
\* text of everything written to stdout, in arrival order, exactly when the
\* exit status is zero, and otherwise rejected with the trimmed text of
\* stderr or, when that is empty, the exit-status message; until the close
\* event the accumulators hold the chunks in arrival order and nothing has
\* been delivered.
C3_OneOutcomeAtClose ==
  \A i \in DOMAIN procs :
    LET p == procs[i] IN
      /\ p.output = StreamText(p.stdout)
      /\ p.error = StreamText(p.stderr)
      /\ p.nSettle <= 1
      /\ (p.promise # "pending") <=> (p.status = "closed")
      /\ (p.nSettle = 1) <=> (p.status = "closed")
      /\ p.promise = "pending" => p.value = <<>>
      /\ (p.promise = "resolved") <=> (p.status = "closed" /\ p.code = <<0>>)
      /\ p.promise = "resolved" => p.value = trim(StreamText(p.stdout))
      /\ p.promise = "rejected" =>
           p.value = IF trim(StreamText(p.stderr)) # <<>>
                     THEN trim(StreamText(p.stderr))
                     ELSE StatusMessage(p.code[1])

\* a call resolved with two different chunks of stdout, trimmed
C3_Witness ==
  \E i \in DOMAIN procs :
    /\ procs[i].promise = "resolved"
    /\ Len(procs[i].stdout) = 2
    /\ procs[i].stdout[1] # procs[i].stdout[2]
    /\ procs[i].value # procs[i].output

(* -------------------------------- C4 ---------------------------------- *)
\* C4 as stated: when a batch handler has returned, none of the subprocesses
\* of the batch is still running.
C4_ReturnsAfterAllClosed ==
  (pc = "returned" /\ req.op \in BatchOps) =>
    \A i \in DOMAIN procs : procs[i].status # "running"

(* -------------------------------- C5 ---------------------------------- *)
\* C5: a batch operation spawns one cleartool subprocess per path, the i-th
\* with an argument vector that ends in the i-th path, and when all of them
\* have exited zero the response is one text block: the success label and
\* the trimmed outputs in path order, joined by newlines.
C5_BatchSuccess ==
  (pc # "idle" /\ req.op \in BatchOps) =>
    /\ Len(procs) = Len(req.resourcePaths)
    /\ \A i \in DOMAIN procs :
         /\ procs[i].command = "cleartool"
         /\ procs[i].args[Len(procs[i].args)] = req.resourcePaths[i]
    /\ (\A i \in DOMAIN procs : ExitedZero(i)) =>
         /\ pc = "returned"
         /\ OneTextBlock
         /\ response[1].text =
              SuccessLabel(req.op)
              \o join([i \in DOMAIN procs |-> trim(StreamText(procs[i].stdout))])

\* two paths whose subprocesses wrote different outputs and closed in the
\* reverse of the request order
C5_Witness ==
  /\ req.op \in BatchOps
  /\ pc = "returned"
  /\ Len(procs) = 2
  /\ settleOrder = <<2, 1>>
  /\ ExitedZero(1) /\ ExitedZero(2)
  /\ procs[1].value # procs[2].value

(* -------------------------------- C6 ---------------------------------- *)
\* C6: create_or_set_ucm_activity invoked with activityId absent or empty
\* and activityHeadline absent or empty spawns no subprocess and returns one
\* text block: the activity error label and the validation message,
\* whatever setActivity is.
C6_ValidationError ==
  ( /\ pc # "idle"
    /\ req.op = ActivityOp
    /\ req.activityId \in { <<>>, << <<>> >> }
    /\ req.activityHeadline \in { <<>>, << <<>> >> } ) =>
      /\ procs = <<>>
      /\ pc = "returned"
      /\ OneTextBlock
      /\ response[1].text =
           <<"Error creating or setting activity:", " ",
             "Either activityId or activityHeadline must be provided.">>

\* the request with an empty activityId, no headline and setActivity true
\* has been answered
C6_Witness ==
  /\ req.op = ActivityOp
  /\ req.activityId = << <<>> >>
  /\ req.activityHeadline = <<>>
  /\ req.setActivity
  /\ pc = "returned"

(* -------------------------------- C7 ---------------------------------- *)
\* C7 as stated: an invocation of an operation that is not a batch operation
\* has spawned exactly one subprocess when its handler returns.
C7_AsStated ==
  (pc = "returned" /\ req.op \notin BatchOps) => Len(procs) = 1

\* C7 amended: an operation that is neither a batch operation nor
\* create_or_set_ucm_activity spawns exactly one subprocess per invocation;
\* a batch operation spawns one per path; create_or_set_ucm_activity has
\* spawned, when it returns, none if neither activityId nor activityHeadline
\* is given, two if it created an activity (mkactivity exited zero) with
\* setActivity true, and one otherwise.
C7_CallsPerInvocation ==
  /\ (pc # "idle" /\ req.op \in SimpleOps) => Len(procs) = 1
  /\ (pc # "idle" /\ req.op \in BatchOps) => Len(procs) = Len(req.resourcePaths)
  /\ (pc = "returned" /\ req.op = ActivityOp) =>
       Len(procs) =
         IF req.activityId \notin { <<>>, << <<>> >> } THEN 1
         ELSE IF req.activityHeadline \in { <<>>, << <<>> >> } THEN 0
         ELSE IF req.setActivity /\ ExitedZero(1) THEN 2
         ELSE 1

\* create_or_set_ucm_activity has returned after two subprocesses
C7_Witness ==
  /\ pc = "returned"
  /\ req.op = ActivityOp
  /\ Len(procs) = 2

(* -------------------------------- C8 ---------------------------------- *)
\* C8: the step in which the host receives SIGTERM or SIGINT ends the host
\* process with status 0 and changes neither the position of the handler,
\* nor the response, nor any subprocess; once the host has exited nothing
\* of the invocation changes any more.
C8_SignalExitsAtOnce ==
  [][ /\ signalled' # signalled =>
           /\ exitStatus' = <<0>>
           /\ UNCHANGED <<pc, response, procs, settleOrder>>
      /\ exitStatus # <<>> => UNCHANGED <<pc, response, procs, settleOrder>>
    ]_vars

\* the host has exited with status 0 on a signal while a handler was
\* suspended on a running subprocess
C8_Witness ==
  /\ signalled
  /\ exitStatus = <<0>>
  /\ pc = "awaiting"
  /\ \E i \in DOMAIN procs : procs[i].status = "running"

(* -------------------------------- C9 ---------------------------------- *)
\* C9: in create_or_set_ucm_activity, a non-empty activityId gives the one
\* call `setactivity <activityId>`; with activityId absent and a headline
\* given, the first call is `mkactivity -headline <headline>`, and a second
\* call exists only if setActivity is true and mkactivity has exited zero,
\* and is `setactivity <first line of the output of mkactivity>`; if that
\* second call exits non-zero the response carries the error label.
C9_ActivityCalls ==
  (pc # "idle" /\ req.op = ActivityOp) =>
    /\ req.activityId \notin { <<>>, << <<>> >> } =>
         /\ Len(procs) = 1
         /\ procs[1].args = << <<"setactivity">>, req.activityId[1] >>
    /\ (req.activityId = <<>> /\ req.activityHeadline \notin { <<>>, << <<>> >> }) =>
         /\ Len(procs) \in 1..2
         /\ procs[1].args =
              << <<"mkactivity">>, <<"-headline">>, req.activityHeadline[1] >>
         /\ Len(procs) = 2 =>
              /\ req.setActivity
              /\ ExitedZero(1)
              /\ procs[2].args =
                   << <<"setactivity">>,
                      FirstLineOf(trim(StreamText(procs[1].stdout))) >>
              /\ ExitedNonZero(2) =>
                   /\ pc = "returned"
                   /\ OneTextBlock
                   /\ IsPrefix(ErrorLabel(req.op), response[1].text)

\* mkactivity printed two lines and exited zero, then setactivity failed
C9_Witness ==
  /\ req.op = ActivityOp
  /\ req.activityId = <<>>
  /\ Len(procs) = 2
  /\ procs[1].value = <<"a", "\n", "U+FFFD">>
  /\ procs[2].args = << <<"setactivity">>, <<"a">> >>
  /\ ExitedNonZero(2)
  /\ pc = "returned"

(* -------------------------------- C10 --------------------------------- *)
\* C10: when a batch handler has returned and a subprocess of the batch has
\* exited non-zero, the response is one text block made of the error label
\* and the failure message of the subprocess that was the first to exit
\* non-zero, and of nothing else.
C10_FirstFailureInTime ==
  (pc = "returned" /\ req.op \in BatchOps /\ FailedInTime # <<>>) =>
    LET first == procs[Head(FailedInTime)] IN
      /\ OneTextBlock
      /\ response[1].text =
           ErrorLabel(req.op)
           \o (IF trim(StreamText(first.stderr)) # <<>>
               THEN trim(StreamText(first.stderr))
               ELSE StatusMessage(first.code[1]))

\* both paths failed with different messages, the second path first, and the
\* response carries the message of the second path
C10_Witness ==
  /\ req.op \in BatchOps
  /\ pc = "returned"
  /\ Len(procs) = 2
  /\ settleOrder = <<2, 1>>
  /\ ExitedNonZero(1) /\ ExitedNonZero(2)
  /\ procs[1].value # procs[2].value
  /\ response[1].text = ErrorLabel(req.op) \o procs[2].value

====
